---- MODULE Spec2Model ----
(***************************************************************************)
(* Client-side list synchronisation of the High-Performance-Table front    *)
(* end: Home (app/page.tsx), the useProducts hook (hooks/use-products.ts), *)
(* the axios client (lib/api.ts) and the DataTable component               *)
(* (components/data-table.tsx).                                            *)
(*                                                                         *)
(* One step of the model is one task of the browser's event loop: a user   *)
(* event, a timer callback or the continuation of an awaited network call, *)
(* followed by the React re-render and the effects that re-render runs.    *)
(* Time advances in units of 100 ms.                                       *)
(***************************************************************************)
EXTENDS Integers, Sequences, FiniteSets, TLC

(***************************************************************************)
(* Bounds of the model.                                                    *)
(***************************************************************************)
MaxCalls == 3     \* network calls dispatched in one behaviour

(***************************************************************************)
(* JavaScript values.  A property of an object literal is absent, present  *)
(* with the value undefined, or present with a value.                      *)
(***************************************************************************)
Absent == <<>>
Undefined == <<"undefined">>
Val(x) == <<"val", x>>

Null == <<>>                 \* error: string | null
Str(s) == <<s>>

IsSet(f) == Len(f) = 2       \* neither absent nor undefined

\* obj.key : an absent property reads as undefined
Read(f) == IF f = Absent THEN Undefined ELSE f

\* f || d for numbers: undefined and 0 are falsy
OrNum(f, d) == IF IsSet(f) THEN (IF f[2] = 0 THEN d ELSE f[2]) ELSE d

\* f || d for the enumerated strings and category names
OrStr(f, d) == IF IsSet(f) THEN (IF f[2] = "" THEN d ELSE f[2]) ELSE d

(***************************************************************************)
(* ProductQueryParams.                                                     *)
(***************************************************************************)
Keys == {"page", "page_size", "search", "category", "min_price", "max_price",
         "min_stock", "sort_by", "sort_order", "tags"}

NoParams == [k \in Keys |-> Absent]

\* { ...a, ...b }
Spread(a, b) == [k \in Keys |-> IF b[k] = Absent THEN a[k] ELSE b[k]]

\* Home: useState<ProductQueryParams>({ page: 1, page_size: 50, ... })
InitialParams == [NoParams EXCEPT !["page"] = Val(1),
                                  !["page_size"] = Val(50),
                                  !["sort_by"] = Val("created_at"),
                                  !["sort_order"] = Val("desc")]

SortFields == {"name", "price", "created_at", "rating", "stock"}

\* the sort buttons the user presses
SortInputs == {"price"}

(***************************************************************************)
(* Text.  A string that is searched is a sequence of characters.           *)
(***************************************************************************)
toLowerCaseChar(c) ==
    CASE c = "L" -> "l" [] c = "U" -> "u" [] c = "S" -> "s" [] c = "B" -> "b"
      [] c = "C" -> "c" [] c = "M" -> "m" [] c = "A" -> "a" [] c = "P" -> "p"
      [] OTHER -> c

toLowerCase(s) == [i \in 1..Len(s) |-> toLowerCaseChar(s[i])]

includes(s, sub) ==
    \E i \in 0..(Len(s) - Len(sub)) : SubSeq(s, i + 1, i + Len(sub)) = sub

\* the texts the user types into the search box
Texts == { <<>>, <<"u", "s", "b">> }

(***************************************************************************)
(* Products and the pages the query service answers with.                  *)
(***************************************************************************)
Laptop ==
    [_id |-> "p1", name |-> <<"L", "a", "p">>, description |-> <<"p", "c">>,
     sku |-> <<"s", "1">>, category |-> "computers", price |-> 900,
     stock |-> 5, rating |-> Val(4), created_at |-> "2024-01-03"]

Cable ==
    [_id |-> "p2", name |-> <<"C", "a", "b">>,
     description |-> <<"U", "S", "B", "-", "C">>,
     sku |-> <<"s", "2">>, category |-> "accessories", price |-> 9,
     stock |-> 0, rating |-> Absent, created_at |-> "2024-01-01"]

Mouse ==
    [_id |-> "p3", name |-> <<"M", "o", "u">>, description |-> <<"u", "s", "b">>,
     sku |-> <<"s", "3">>, category |-> "accessories", price |-> 9,
     stock |-> 7, rating |-> Val(4), created_at |-> "2024-01-02"]

Hub ==
    [_id |-> "p4", name |-> <<"h", "u", "b">>, description |-> <<"4", "p">>,
     sku |-> <<"U", "S", "B", "4">>, category |-> "computers", price |-> 900,
     stock |-> 5, rating |-> Val(0), created_at |-> "2024-01-01T00:00:00Z"]

\* a product without a category
Loose ==
    [_id |-> "p5", name |-> <<"b", "o", "l", "t">>, description |-> <<"m", "4">>,
     sku |-> <<"s", "5">>, category |-> "", price |-> 1,
     stock |-> 50, rating |-> Val(5), created_at |-> "2024-01-02"]

\* the query service: the number of pages of total items
totalPagesOf(n, pageSize) ==
    IF n > 0 THEN (n + pageSize - 1) \div pageSize ELSE 0

\* what the service can answer, apart from the page number it echoes and
\* the number of pages
DataSets ==
    { [products |-> <<>>, total |-> 0],
      [products |-> <<Cable, Mouse, Laptop>>, total |-> 120] }

\* the page numbers next to a page of the service
PageInputs ==
    UNION { 0..(totalPagesOf(d.total, OrNum(InitialParams["page_size"], 50)) + 1) : d \in DataSets }

NoResponse == [products |-> <<>>, total |-> 0, page |-> 0, total_pages |-> 0]

\* ProductListResponse for a request
Response(req, d) ==
    [products |-> d.products, total |-> d.total, page |-> req.page,
     total_pages |-> totalPagesOf(d.total, req.page_size)]

(***************************************************************************)
(* lib/api.ts: the ways a GET can fail, and the response interceptor.      *)
(***************************************************************************)
NotThrown == [isError |-> FALSE, message |-> ""]

Failures ==
    { \* an error response whose body has a message and no detail
      [kind |-> "response", detail |-> Absent,
       message |-> Val("Bad request"), thrown |-> NotThrown],
      \* no response: network unreachable, or the 10 s timeout
      [kind |-> "request", detail |-> Absent, message |-> Absent,
       thrown |-> NotThrown],
      \* anything else, an Error or not
      [kind |-> "other", detail |-> Absent, message |-> Absent,
       thrown |-> [isError |-> FALSE, message |-> ""]] }

\* api.interceptors.response.use(_, (error) => ...): the value the call rejects with
responseInterceptor(f) ==
    CASE f.kind = "response" ->
           [isError |-> TRUE,
            message |-> OrStr(f.detail, OrStr(f.message, "An error occurred"))]
      [] f.kind = "request" ->
           [isError |-> TRUE,
            message |-> "Network error. Please check your connection."]
      [] OTHER -> f.thrown

errorMessage_NullUnlessError(err) ==
    IF err.isError THEN Str(err.message) ELSE Null

\* catch (err): err instanceof Error ? err.message : "Failed to fetch products"
errorMessage(err) ==
    IF err.isError THEN Str(err.message) ELSE Str("Failed to fetch products")

(***************************************************************************)
(* hooks/use-products.ts: the params of api.get.                           *)
RequestOf_NoDefaults(queryParams) ==
    [page |-> IF IsSet(queryParams["page"]) THEN queryParams["page"][2] ELSE 0,
     page_size |-> IF IsSet(queryParams["page_size"])
                   THEN queryParams["page_size"][2] ELSE 0,
     search |-> Read(queryParams["search"]),
     category |-> Read(queryParams["category"]),
     min_price |-> Read(queryParams["min_price"]),
     max_price |-> Read(queryParams["max_price"]),
     min_stock |-> Read(queryParams["min_stock"]),
     sort_by |-> OrStr(queryParams["sort_by"], ""),
     sort_order |-> OrStr(queryParams["sort_order"], ""),
     tags |-> Read(queryParams["tags"])]

(***************************************************************************)
RequestOf(queryParams) ==
    [page |-> OrNum(queryParams["page"], 1),
     page_size |-> OrNum(queryParams["page_size"], 50),
     search |-> Read(queryParams["search"]),
     category |-> Read(queryParams["category"]),
     min_price |-> Read(queryParams["min_price"]),
     max_price |-> Read(queryParams["max_price"]),
     min_stock |-> Read(queryParams["min_stock"]),
     sort_by |-> OrStr(queryParams["sort_by"], "created_at"),
     sort_order |-> OrStr(queryParams["sort_order"], "desc"),
     tags |-> Read(queryParams["tags"])]

(***************************************************************************)
(* components/data-table.tsx: the client-side overlay.                     *)
(***************************************************************************)
matchesSearch_NameOnly(p, searchLower) ==
    includes(toLowerCase(p.name), searchLower)

\* the predicate of the search filter
matchesSearch(p, searchLower) ==
    \/ includes(toLowerCase(p.name), searchLower)
    \/ includes(toLowerCase(p.description), searchLower)
    \/ includes(toLowerCase(p.sku), searchLower)

\* the two filter passes of filteredAndSortedProducts
filterProducts(rows, text, cat) ==
    LET bySearch ==
            IF Len(text) > 0
            THEN SelectSeq(rows, LAMBDA p : matchesSearch(p, toLowerCase(text)))
            ELSE rows
    IN  IF cat # "" /\ cat # "all"
        THEN SelectSeq(bySearch, LAMBDA p : p.category = cat)
        ELSE bySearch

\* the UTF-16 code unit of a character of a name
CharCode(c) ==
    CASE c = "C" -> 67 [] c = "L" -> 76 [] c = "M" -> 77
      [] c = "a" -> 97 [] c = "b" -> 98 [] c = "c" -> 99 [] c = "h" -> 104
      [] c = "l" -> 108 [] c = "m" -> 109 [] c = "o" -> 111 [] c = "p" -> 112
      [] c = "t" -> 116 [] c = "u" -> 117

\* a < b for two strings: the first code unit that differs decides
RECURSIVE stringLess(_, _)
stringLess(a, b) ==
    IF b = <<>> THEN FALSE
    ELSE IF a = <<>> THEN TRUE
    ELSE IF CharCode(Head(a)) # CharCode(Head(b))
         THEN CharCode(Head(a)) < CharCode(Head(b))
         ELSE stringLess(Tail(a), Tail(b))

\* new Date(s).getTime(), in seconds
getTime(s) ==
    CASE s = "2024-01-01" -> 1704067200
      [] s = "2024-01-01T00:00:00Z" -> 1704067200
      [] s = "2024-01-02" -> 1704153600
      [] s = "2024-01-03" -> 1704240000

\* aVal (and bVal) of the comparator, after its normalisation
sortValue(p, by) ==
    CASE by = "price" -> (IF p.price = 0 THEN 0 ELSE p.price)
      [] by = "rating" -> OrNum(p.rating, 0)
      [] by = "stock" -> (IF p.stock = 0 THEN 0 ELSE p.stock)
      [] by = "name" -> toLowerCase(p.name)
      [] by = "created_at" -> getTime(p.created_at)

\* aVal < bVal
valueLess(aVal, bVal, by) ==
    IF by = "name" THEN stringLess(aVal, bVal) ELSE aVal < bVal

compare_AscendingOnly(a, b, by, order) ==
    LET aVal == sortValue(a, by)
        bVal == sortValue(b, by)
    IN  IF valueLess(bVal, aVal, by) THEN 1
        ELSE IF valueLess(aVal, bVal, by) THEN -1 ELSE 0

\* the comparator passed to filtered.sort
compare(a, b, by, order) ==
    LET aVal == sortValue(a, by)
        bVal == sortValue(b, by)
    IN  IF order = "asc"
        THEN (IF valueLess(bVal, aVal, by) THEN 1
              ELSE IF valueLess(aVal, bVal, by) THEN -1 ELSE 0)
        ELSE (IF valueLess(aVal, bVal, by) THEN 1
              ELSE IF valueLess(bVal, aVal, by) THEN -1 ELSE 0)

\* Array.prototype.sort is stable: an element goes after every element the
\* comparator does not put behind it
RECURSIVE insertSorted(_, _, _, _)
insertSorted(sorted, x, by, order) ==
    IF sorted = <<>> THEN <<x>>
    ELSE IF compare(Head(sorted), x, by, order) <= 0
         THEN <<Head(sorted)>> \o insertSorted(Tail(sorted), x, by, order)
         ELSE <<x>> \o sorted

RECURSIVE arraySort(_, _, _)
arraySort(rows, by, order) ==
    IF rows = <<>> THEN <<>>
    ELSE insertSorted(arraySort(SubSeq(rows, 1, Len(rows) - 1), by, order),
                      rows[Len(rows)], by, order)

filterAndSort_ReverseForDesc(rows, text, cat, by, order) ==
    LET ascending == arraySort(filterProducts(rows, text, cat), by, "asc")
    IN  IF order = "desc"
        THEN [i \in 1..Len(ascending) |-> ascending[Len(ascending) + 1 - i]]
        ELSE ascending

productsAfterMemo_SortsInPlace(rows, text, cat, by, order) ==
    IF Len(text) > 0 \/ (cat # "" /\ cat # "all")
    THEN rows
    ELSE arraySort(rows, by, order)

\* the array products after the memo has run: the memo starts from a copy
\* ([...products]), filter returns new arrays, sort works in place on the
\* copy, and the comparator assigns to its own aVal and bVal only
productsAfterMemo(rows, text, cat, by, order) == rows

\* the value of the useMemo filteredAndSortedProducts for its dependencies
filterAndSort(rows, text, cat, by, order) ==
    arraySort(filterProducts(rows, text, cat), by, order)

\* new Set(products.map((p) => p.category).filter(Boolean))
categorySet(rows) == { rows[i].category : i \in 1..Len(rows) } \ {""}

\* the characters of a category
categoryChars(c) ==
    CASE c = "accessories" -> <<"a", "c", "c">>
      [] c = "computers" -> <<"c", "o", "m">>
      [] c = "" -> <<>>

\* Array.from(cats).sort(): the default sort, by code units
RECURSIVE sortCategories(_)
sortCategories(cats) ==
    IF cats = {} THEN <<>>
    ELSE LET first == CHOOSE c \in cats :
                          \A d \in cats \ {c} :
                              stringLess(categoryChars(c), categoryChars(d))
         IN  <<first>> \o sortCategories(cats \ {first})

\* the memo categories for the products it depends on
categoryList(rows) == sortCategories(categorySet(rows))

\* the categories a product of the service can have
RealCategories == UNION { categorySet(d.products) : d \in DataSets }

\* search || undefined
searchOrUndefined(text) == IF Len(text) > 0 THEN Val(text) ELSE Undefined

\* { ...currentParams, search: search || undefined, page: 1 }
debounceParams(cp, text) ==
    Spread(cp, [NoParams EXCEPT !["search"] = searchOrUndefined(text),
                                !["page"] = Val(1)])

categoryParams_KeepPage(cp, value) ==
    Spread(cp, [NoParams EXCEPT
                  !["category"] = IF value = "all" THEN Undefined ELSE Val(value)])

categoryParams_KeepAll(cp, value) ==
    Spread(cp, [NoParams EXCEPT !["category"] = Val(value),
                                !["page"] = Val(1)])

\* { ...currentParams, category: apiCategory, page: 1 }
categoryParams(cp, value) ==
    Spread(cp, [NoParams EXCEPT
                  !["category"] = IF value = "all" THEN Undefined ELSE Val(value),
                  !["page"] = Val(1)])

sortParams_ResetsPage(cp, field, order) ==
    Spread(cp, [NoParams EXCEPT !["sort_by"] = Val(field),
                                !["sort_order"] = Val(order),
                                !["page"] = Val(1)])

\* { ...currentParams, sort_by: field, sort_order: order }
sortParams(cp, field, order) ==
    Spread(cp, [NoParams EXCEPT !["sort_by"] = Val(field),
                                !["sort_order"] = Val(order)])

\* { ...currentParams, page: newPage }
pageParams(cp, newPage) ==
    Spread(cp, [NoParams EXCEPT !["page"] = Val(newPage)])

pageButtons_NeverDisabled(pg, tp) == {pg - 1, pg + 1}

\* the pages Previous and Next pass to handlePageChange: page - 1 unless
\* disabled by page === 1, page + 1 unless disabled by page === totalPages
pageButtons(pg, tp) ==
    (IF pg = 1 THEN {} ELSE {pg - 1}) \cup (IF pg = tp THEN {} ELSE {pg + 1})

nextSortOrder_AlwaysDesc(curBy, curOrder, field) == "desc"

\* the order handleSortChange(field) selects
nextSortOrder(curBy, curOrder, field) ==
    IF curBy = field THEN (IF curOrder = "asc" THEN "desc" ELSE "asc") ELSE "desc"

syncCategory_NoDefault(cat, prev, next) ==
    LET normalizedCategory == OrStr(next["category"], "")
    IN  IF Read(prev["category"]) # Read(next["category"])
           /\ cat # normalizedCategory
        THEN normalizedCategory
        ELSE cat

\* useEffect(..., [currentParams.category]) after a render in which the
\* params went from prev to next and the category state is cat
syncCategory(cat, prev, next) ==
    LET normalizedCategory == OrStr(next["category"], "all")
    IN  IF Read(prev["category"]) # Read(next["category"])
           /\ cat # normalizedCategory
        THEN normalizedCategory
        ELSE cat

\* setTimeout(..., 300), in units of 100 ms
DebounceDelay == 3

\* the timer armed by the debounce effect: the values its callback closes over
newTimer(cp, hookParams, text) ==
    [elapsed |-> 0, params |-> cp, hookParams |-> hookParams, search |-> text]

debounceEffect_NoCleanup(ts, cp, hookParams, text) ==
    Append(ts, newTimer(cp, hookParams, text))

debounceEffect_CancelsNew(ts, cp, hookParams, text) ==
    IF ts = <<>> THEN <<newTimer(cp, hookParams, text)>> ELSE ts

\* the debounce effect re-run for a new search text: the cleanup of the
\* previous run clears its timer (the last one armed, if still pending),
\* then a new timer is armed
debounceEffect(ts, cp, hookParams, text) ==
    Append(IF ts = <<>> THEN ts ELSE SubSeq(ts, 1, Len(ts) - 1),
           newTimer(cp, hookParams, text))

(***************************************************************************)
(* State.                                                                  *)
(***************************************************************************)
VARIABLES
    params,          \* Home: the Query Model
    products, loading, error, total, page, totalPages,   \* useProducts
    currentParams,   \* useProducts: the params of the last call made
    search, category, sortBy, sortOrder,                 \* DataTable
    filteredAndSortedProducts,   \* DataTable: the rows of the overlay
    timers,          \* pending debounce timers, oldest first
    inflight,        \* the calls of api.get not yet settled, oldest first
    promises,        \* the promise fetchProducts returned, per call made
    freshest,        \* the newest call that has succeeded, and its response
    quiet,           \* time since the last search edit, up to DebounceDelay
    burstCalls,      \* calls dispatched by the debounce since the last edit
    userActed,       \* some user input happened since the mount
    committed,       \* the category and sort the user last committed
    failedSinceInput, \* a call has failed since the last user input
    appliedPageSize, \* the page_size of the request whose response was
                     \* applied last
    detail           \* ProductDetailPage: its route parameter, its state
                     \* and its call

hookVars == <<products, loading, error, total, page, totalPages, currentParams>>
tableVars == <<search, category, sortBy, sortOrder>>
callVars == <<inflight, promises, freshest>>
historyVars ==
    <<quiet, burstCalls, userActed, committed, failedSinceInput, appliedPageSize>>
\* the state of Home and of what it mounts
homeVars == <<params, hookVars, tableVars, filteredAndSortedProducts, timers,
              callVars, historyVars>>
vars == <<homeVars, detail>>

\* the number of calls dispatched so far; the token of the newest one
issued == Len(promises)

\* the PageResult the hook holds
held == [products |-> products, total |-> total, page |-> page,
         total_pages |-> totalPages]

\* filteredAndSortedProducts.length
visibleCount == Len(filteredAndSortedProducts)

Render_SearchNotADependency ==
    filteredAndSortedProducts' =
        IF search' # search THEN filteredAndSortedProducts
        ELSE filterAndSort(products', search', category', sortBy', sortOrder')

\* the render after a state change: useMemo re-evaluates the overlay for its
\* dependencies [products, search, category, sortBy, sortOrder]
Render ==
    filteredAndSortedProducts' =
        filterAndSort(products', search', category', sortBy', sortOrder')

categories_OfOverlay == categoryList(filteredAndSortedProducts)

\* useMemo(..., [products]): the items of the Select after "all"
categories == categoryList(products)

\* estimateSize: () => 80
RowHeight == 80

\* overscan: 10
Overscan == 10

virtualizerOptions_CountsHeldRows ==
    [count |-> Len(products), estimateSize |-> RowHeight, overscan |-> Overscan]

\* the options DataTable passes to useVirtualizer
virtualizerOptions ==
    [count |-> Len(filteredAndSortedProducts), estimateSize |-> RowHeight,
     overscan |-> Overscan]

\* virtualizer.getTotalSize(): no row is measured (no measureElement ref), so
\* every row has its estimated size
getTotalSize == virtualizerOptions.count * virtualizerOptions.estimateSize

\* what DataTable renders in place of the table: the spinner while loading,
\* the empty notice for no rows, the rows otherwise
tableView ==
    IF loading THEN "spinner"
    ELSE IF visibleCount = 0 THEN "empty" ELSE "rows"

\* the rows on the screen
renderedRows == IF tableView = "rows" THEN filteredAndSortedProducts ELSE <<>>

\* the pages the pagination buttons on the screen lead to: Previous and Next
\* are rendered inside the rows branch, under totalPages > 1
enabledPageInputs ==
    IF tableView = "rows" /\ totalPages > 1 THEN pageButtons(page, totalPages)
    ELSE {}

newCall(token, req, origin) == [token |-> token, req |-> req, origin |-> origin]

Remove(seq, k) == SubSeq(seq, 1, k - 1) \o SubSeq(seq, k + 1, Len(seq))

(***************************************************************************)
(* useProducts.fetchProducts(params), up to the await.  hookParams is the  *)
(* currentParams the callback closes over.                                 *)
(***************************************************************************)
fetchProducts(hookParams, p, origin) ==
    LET queryParams == Spread(hookParams, p)
    IN  /\ loading' = TRUE
        /\ error' = Null
        /\ currentParams' = queryParams
        /\ inflight' = Append(inflight,
                              newCall(issued + 1, RequestOf(queryParams), origin))
        /\ promises' = Append(promises, "pending")

handleParamsChange_AbortsOlder(hookParams, newParams, origin) ==
    LET queryParams == Spread(hookParams, newParams)
    IN  /\ params' = Spread(params, newParams)
        /\ loading' = TRUE
        /\ error' = Null
        /\ currentParams' = queryParams
        /\ inflight' = <<newCall(issued + 1, RequestOf(queryParams), origin)>>
        /\ promises' = Append(promises, "pending")

handleParamsChange_NoFetch(hookParams, newParams, origin) ==
    /\ params' = Spread(params, newParams)
    /\ UNCHANGED <<loading, error, currentParams, inflight, promises>>

(***************************************************************************)
(* Home.handleParamsChange(newParams)                                      *)
(***************************************************************************)
handleParamsChange(hookParams, newParams, origin) ==
    /\ params' = Spread(params, newParams)
    /\ fetchProducts(hookParams, newParams, origin)

(***************************************************************************)
(* app/products/[id]/page.tsx: ProductDetailPage.                          *)
(***************************************************************************)
\* useParams().id: missing, a string, or the string[] of a catch-all segment
IdMissing == [type |-> "undefined", text |-> ""]
IdString(s) == [type |-> "string", text |-> s]
IdArray == [type |-> "object", text |-> "p1"]

\* the route parameters the page can be mounted with
DetailIds ==
    {IdMissing, IdArray} \cup { IdString(s) : s \in {"p1", "p2", "p3", "p4", "p5", "p9"} }

\* the negation of: !params.id || typeof params.id !== "string"
validId(id) ==
    /\ ~(id.type = "undefined" \/ (id.type = "string" /\ id.text = ""))
    /\ id.type = "string"

\* the ways GET /api/v1/products/:id can fail: those of a page call, and an
\* error response whose body has a detail
DetailFailures ==
    Failures \cup
    { [kind |-> "response", detail |-> Val("Product not found"),
       message |-> Absent, thrown |-> NotThrown] }

\* catch (err): err instanceof Error ? err.message : "Failed to load product"
productErrorMessage(err) ==
    IF err.isError THEN Str(err.message) ELSE Str("Failed to load product")

\* the page just mounted with route parameter id: useState(null),
\* useState(true), useState(null); the effect has not run yet
DetailMounted(id) ==
    [mounted |-> TRUE, id |-> id, effect |-> "pending", product |-> Null,
     loading |-> TRUE, error |-> Null, call |-> "none", requests |-> 0]

\* the page is not on the screen
NoDetailPage ==
    [mounted |-> FALSE, id |-> IdMissing, effect |-> "pending", product |-> Null,
     loading |-> TRUE, error |-> Null, call |-> "none", requests |-> 0]

\* what ProductDetailPage returns: the spinner while loading, the error card
\* for error || !product, the product card otherwise
detailView ==
    IF detail.loading THEN "spinner"
    ELSE IF detail.error # Null \/ detail.product = Null THEN "error"
    ELSE "product"

(***************************************************************************)
(* After the first render and its effects: the debounce effect has armed   *)
(* its timer and the hook's effect has called fetchProducts(initialParams).*)
(***************************************************************************)
HomeInit ==
    /\ params = InitialParams
    /\ products = <<>>
    /\ loading = TRUE
    /\ error = Null
    /\ total = 0
    /\ page = OrNum(InitialParams["page"], 1)
    /\ totalPages = 0
    /\ currentParams = Spread(InitialParams, InitialParams)
    /\ search = IF IsSet(InitialParams["search"]) THEN InitialParams["search"][2] ELSE <<>>
    /\ category = OrStr(InitialParams["category"], "all")
    /\ sortBy = OrStr(InitialParams["sort_by"], "created_at")
    /\ sortOrder = OrStr(InitialParams["sort_order"], "desc")
    /\ filteredAndSortedProducts =
           filterAndSort(products, search, category, sortBy, sortOrder)
    /\ timers = debounceEffect(<<>>, InitialParams, InitialParams, <<>>)
    /\ inflight = <<newCall(1, RequestOf(Spread(InitialParams, InitialParams)),
                            "mount")>>
    /\ promises = <<"pending">>
    /\ freshest = [token |-> 0, resp |-> NoResponse]
    /\ quiet = 0
    /\ burstCalls = 0
    /\ userActed = FALSE
    /\ committed = [category |-> Undefined, sort_by |-> "created_at",
                    sort_order |-> "desc"]
    /\ failedSinceInput = FALSE
    /\ appliedPageSize = OrNum(InitialParams["page_size"], 50)

\* Home is on the screen, the detail page is not
Init == HomeInit /\ detail = NoDetailPage

(***************************************************************************)
(* The user edits the search box: setSearch(text); the re-render re-runs   *)
(* the debounce effect.                                                    *)
(***************************************************************************)
SearchEdit(text) ==
    /\ text # search
    /\ search' = text
    /\ timers' = debounceEffect(timers, params, currentParams, text)
    /\ quiet' = 0
    /\ burstCalls' = 0
    /\ userActed' = TRUE
    /\ failedSinceInput' = FALSE
    /\ appliedPageSize' = appliedPageSize
    /\ UNCHANGED <<params, hookVars, category, sortBy, sortOrder, callVars,
                   committed>>
    /\ UNCHANGED detail
    /\ Render

(***************************************************************************)
(* 100 ms pass.  A timer that is due runs before time goes on.             *)
(***************************************************************************)
Tick ==
    /\ timers # <<>>
    /\ \A i \in 1..Len(timers) : timers[i].elapsed < DebounceDelay
    /\ timers' = [i \in 1..Len(timers) |->
                    [timers[i] EXCEPT !.elapsed = timers[i].elapsed + 1]]
    /\ quiet' = IF quiet < DebounceDelay THEN quiet + 1 ELSE quiet
    /\ UNCHANGED <<params, hookVars, tableVars, filteredAndSortedProducts,
                   callVars, burstCalls, userActed, committed,
                   failedSinceInput, appliedPageSize, detail>>

(***************************************************************************)
(* The debounce timer fires: onParamsChange({...currentParams, search:     *)
(* search || undefined, page: 1}) with the values of the render that       *)
(* armed it.                                                               *)
(***************************************************************************)
DebounceFire ==
    /\ timers # <<>>
    /\ Head(timers).elapsed = DebounceDelay
    /\ issued < MaxCalls
    /\ LET t == Head(timers)
       IN  handleParamsChange(t.hookParams, debounceParams(t.params, t.search),
                              "debounce")
    /\ timers' = Tail(timers)
    /\ category' = syncCategory(category, params, params')
    /\ burstCalls' = burstCalls + 1
    /\ UNCHANGED <<products, total, page, totalPages, search, sortBy, sortOrder,
                   freshest, quiet, userActed, committed, failedSinceInput,
                   appliedPageSize>>
    /\ UNCHANGED detail
    /\ Render

(***************************************************************************)
(* DataTable.handleCategoryChange(value), from the Select.                 *)
(***************************************************************************)
handleCategoryChange(value) ==
    /\ value \in {"all"} \cup categorySet(products)
    /\ value # category
    /\ issued < MaxCalls
    /\ handleParamsChange(currentParams, categoryParams(params, value), "category")
    /\ category' = syncCategory(value, params, params')
    /\ userActed' = TRUE
    /\ failedSinceInput' = FALSE
    /\ appliedPageSize' = appliedPageSize
    /\ committed' = [committed EXCEPT
                       !.category = IF value = "all" THEN Undefined ELSE Val(value)]
    /\ UNCHANGED <<products, total, page, totalPages, search, sortBy, sortOrder,
                   timers, freshest, quiet, burstCalls>>
    /\ UNCHANGED detail
    /\ Render

(***************************************************************************)
(* DataTable.handleSortChange(field), from the sort buttons.               *)
(***************************************************************************)
handleSortChange(field) ==
    /\ issued < MaxCalls
    /\ LET order == nextSortOrder(sortBy, sortOrder, field)
       IN  /\ sortBy' = field
           /\ sortOrder' = order
           /\ handleParamsChange(currentParams, sortParams(params, field, order),
                                 "sort")
           /\ committed' = [committed EXCEPT !.sort_by = field,
                                             !.sort_order = order]
    /\ category' = syncCategory(category, params, params')
    /\ userActed' = TRUE
    /\ failedSinceInput' = FALSE
    /\ appliedPageSize' = appliedPageSize
    /\ UNCHANGED <<products, total, page, totalPages, search, timers, freshest,
                   quiet, burstCalls>>
    /\ UNCHANGED detail
    /\ Render

(***************************************************************************)
(* DataTable.handlePageChange(newPage), from Previous / Next, which are    *)
(* rendered when the table shows rows and totalPages > 1.                  *)
(***************************************************************************)
handlePageChange(newPage) ==
    /\ ~loading
    /\ visibleCount # 0
    /\ totalPages > 1
    /\ newPage \in pageButtons(page, totalPages)
    /\ issued < MaxCalls
    /\ handleParamsChange(currentParams, pageParams(params, newPage), "page")
    /\ category' = syncCategory(category, params, params')
    /\ userActed' = TRUE
    /\ failedSinceInput' = FALSE
    /\ appliedPageSize' = appliedPageSize
    /\ UNCHANGED <<products, total, page, totalPages, search, sortBy, sortOrder,
                   timers, freshest, quiet, burstCalls, committed>>
    /\ UNCHANGED detail
    /\ Render

FetchSucceeds_KeepsTotals(k, d) ==
    /\ k \in 1..Len(inflight)
    /\ LET call == inflight[k]
           response == Response(call.req, d)
       IN  /\ products' = response.products
           /\ page' = response.page
           /\ promises' = [promises EXCEPT ![call.token] = "fulfilled"]
           /\ freshest' = IF call.token > freshest.token
                          THEN [token |-> call.token, resp |-> response]
                          ELSE freshest
    /\ loading' = FALSE
    /\ appliedPageSize' = inflight[k].req.page_size
    /\ inflight' = Remove(inflight, k)
    /\ UNCHANGED <<params, error, total, totalPages, currentParams, tableVars,
                   timers, quiet, burstCalls, userActed, committed,
                   failedSinceInput>>
    /\ UNCHANGED detail
    /\ Render

(***************************************************************************)
(* fetchProducts after the await: the k-th call in flight succeeded with   *)
(* dataset d.                                                              *)
(***************************************************************************)
FetchSucceeds(k, d) ==
    /\ k \in 1..Len(inflight)
    /\ LET call == inflight[k]
           response == Response(call.req, d)
       IN  /\ products' = response.products
           /\ total' = response.total
           /\ page' = response.page
           /\ totalPages' = response.total_pages
           /\ promises' = [promises EXCEPT ![call.token] = "fulfilled"]
           /\ freshest' = IF call.token > freshest.token
                          THEN [token |-> call.token, resp |-> response]
                          ELSE freshest
    /\ loading' = FALSE
    /\ appliedPageSize' = inflight[k].req.page_size
    /\ inflight' = Remove(inflight, k)
    /\ UNCHANGED <<params, error, currentParams, tableVars, timers, quiet,
                   burstCalls, userActed, committed, failedSinceInput>>
    /\ UNCHANGED detail
    /\ Render

FetchFails_ClearsPages(k, f) ==
    /\ k \in 1..Len(inflight)
    /\ error' = errorMessage(responseInterceptor(f))
    /\ products' = <<>>
    /\ totalPages' = 0
    /\ loading' = FALSE
    /\ promises' = [promises EXCEPT ![inflight[k].token] = "fulfilled"]
    /\ inflight' = Remove(inflight, k)
    /\ failedSinceInput' = TRUE
    /\ appliedPageSize' = appliedPageSize
    /\ UNCHANGED <<params, total, page, currentParams, tableVars,
                   timers, freshest, quiet, burstCalls, userActed, committed>>
    /\ UNCHANGED detail
    /\ Render

FetchFails_ClearsTotal(k, f) ==
    /\ k \in 1..Len(inflight)
    /\ error' = errorMessage(responseInterceptor(f))
    /\ products' = <<>>
    /\ total' = 0
    /\ loading' = FALSE
    /\ promises' = [promises EXCEPT ![inflight[k].token] = "fulfilled"]
    /\ inflight' = Remove(inflight, k)
    /\ failedSinceInput' = TRUE
    /\ appliedPageSize' = appliedPageSize
    /\ UNCHANGED <<params, page, totalPages, currentParams, tableVars,
                   timers, freshest, quiet, burstCalls, userActed, committed>>
    /\ UNCHANGED detail
    /\ Render

FetchFails_Retry(k, f) ==
    /\ k \in 1..Len(inflight)
    /\ error' = errorMessage(responseInterceptor(f))
    /\ products' = <<>>
    /\ loading' = FALSE
    /\ promises' = Append([promises EXCEPT ![inflight[k].token] = "fulfilled"],
                          "pending")
    /\ inflight' = Append(Remove(inflight, k),
                          newCall(issued + 1, inflight[k].req, "retry"))
    /\ failedSinceInput' = TRUE
    /\ appliedPageSize' = appliedPageSize
    /\ UNCHANGED <<params, total, page, totalPages, currentParams, tableVars,
                   timers, freshest, quiet, burstCalls, userActed, committed>>
    /\ UNCHANGED detail
    /\ Render

(***************************************************************************)
(* fetchProducts after the await: the k-th call in flight failed with f.   *)
(***************************************************************************)
FetchFails(k, f) ==
    /\ k \in 1..Len(inflight)
    /\ error' = errorMessage(responseInterceptor(f))
    /\ products' = <<>>
    /\ loading' = FALSE
    /\ promises' = [promises EXCEPT ![inflight[k].token] = "fulfilled"]
    /\ inflight' = Remove(inflight, k)
    /\ failedSinceInput' = TRUE
    /\ appliedPageSize' = appliedPageSize
    /\ UNCHANGED <<params, total, page, totalPages, currentParams, tableVars,
                   timers, freshest, quiet, burstCalls, userActed, committed>>
    /\ UNCHANGED detail
    /\ Render

Next ==
    \/ \E text \in Texts : SearchEdit(text)
    \/ Tick
    \/ DebounceFire
    \/ \E value \in {"all", "computers", "accessories"} : handleCategoryChange(value)
    \/ \E field \in SortInputs : handleSortChange(field)
    \/ \E newPage \in PageInputs : handlePageChange(newPage)
    \/ \E k \in 1..MaxCalls, d \in DataSets : FetchSucceeds(k, d)
    \/ \E k \in 1..MaxCalls, f \in Failures : FetchFails(k, f)

Spec == Init /\ [][Next]_vars

\* the oldest call in flight settles: the server answers, the transport
\* fails, or the 10 s timeout of the axios instance ends the call
OldestSettles ==
    \/ \E d \in DataSets : FetchSucceeds(1, d)
    \/ \E f \in Failures : FetchFails(1, f)

\* the calls dispatched under the fair specification
MaxLiveCalls == 2

\* Next with at most MaxLiveCalls calls dispatched
LiveNext ==
    \/ \E text \in Texts : SearchEdit(text)
    \/ Tick
    \/ issued < MaxLiveCalls /\ DebounceFire
    \/ issued < MaxLiveCalls
          /\ \E value \in {"all", "computers", "accessories"} :
                handleCategoryChange(value)
    \/ issued < MaxLiveCalls /\ \E field \in SortInputs : handleSortChange(field)
    \/ issued < MaxLiveCalls
          /\ \E newPage \in PageInputs : handlePageChange(newPage)
    \/ \E k \in 1..MaxLiveCalls, d \in DataSets : FetchSucceeds(k, d)
    \/ \E k \in 1..MaxLiveCalls, f \in Failures : FetchFails(k, f)

\* the program with a transport that settles every call
LiveSpec == Init /\ [][LiveNext]_vars /\ WF_vars(OldestSettles)

(***************************************************************************)
(* DataTable on its own: the overlay over any page it can be handed, with  *)
(* no call in flight.                                                      *)
(***************************************************************************)
\* the rows of a page
MaxRows == 3

\* the products the pages are made of
Pool == {Laptop, Cable, Mouse, Hub, Loose}

\* the pages: up to MaxRows products, each at most once
Pages ==
    UNION { { pg \in [1..n -> Pool] :
                \A i, j \in 1..n : pg[i] = pg[j] => i = j } : n \in 0..MaxRows }

\* the texts typed into the search box of the overlay
OverlayTexts == Texts \cup { <<"L", "A", "P">> }

InitOverlay ==
    /\ params = InitialParams
    /\ products \in Pages
    /\ loading = FALSE
    /\ error = Null
    /\ total = Len(products)
    /\ page = 1
    /\ totalPages = 1
    /\ currentParams = Spread(InitialParams, InitialParams)
    /\ search = <<>>
    /\ category = "all"
    /\ sortBy = OrStr(InitialParams["sort_by"], "created_at")
    /\ sortOrder = OrStr(InitialParams["sort_order"], "desc")
    /\ filteredAndSortedProducts =
           filterAndSort(products, search, category, sortBy, sortOrder)
    /\ timers = <<>>
    /\ inflight = <<>>
    /\ promises = <<"fulfilled">>
    /\ freshest = [token |-> 1,
                   resp |-> [products |-> products, total |-> total,
                             page |-> page, total_pages |-> totalPages]]
    /\ quiet = DebounceDelay
    /\ burstCalls = 0
    /\ userActed = FALSE
    /\ committed = [category |-> Undefined, sort_by |-> "created_at",
                    sort_order |-> "desc"]
    /\ failedSinceInput = FALSE
    /\ appliedPageSize = OrNum(InitialParams["page_size"], 50)
    /\ detail = NoDetailPage

\* setSearch(text)
setSearch(text) ==
    /\ text # search
    /\ search' = text
    /\ products' = productsAfterMemo(products, text, category, sortBy, sortOrder)
    /\ UNCHANGED <<params, loading, error, total, page, totalPages,
                   currentParams, category, sortBy, sortOrder, timers,
                   callVars, historyVars>>
    /\ UNCHANGED detail
    /\ Render

\* setCategory(value), for a value of the Select
setCategory(value) ==
    /\ value \in {"all"} \cup categorySet(products)
    /\ value # category
    /\ category' = value
    /\ products' = productsAfterMemo(products, search, value, sortBy, sortOrder)
    /\ UNCHANGED <<params, loading, error, total, page, totalPages,
                   currentParams, search, sortBy, sortOrder, timers,
                   callVars, historyVars>>
    /\ UNCHANGED detail
    /\ Render

\* setSortBy and setSortOrder, as handleSortChange(field) calls them
setSort(field) ==
    /\ sortBy' = field
    /\ sortOrder' = nextSortOrder(sortBy, sortOrder, field)
    /\ products' = productsAfterMemo(products, search, category, field,
                                     nextSortOrder(sortBy, sortOrder, field))
    /\ UNCHANGED <<params, loading, error, total, page, totalPages,
                   currentParams, search, category, timers, callVars,
                   historyVars>>
    /\ UNCHANGED detail
    /\ Render

NextOverlay ==
    \/ \E text \in OverlayTexts : setSearch(text)
    \/ \E value \in {"all"} \cup RealCategories : setCategory(value)
    \/ \E field \in SortFields : setSort(field)

SpecOverlay == InitOverlay /\ [][NextOverlay]_vars

(***************************************************************************)
(* ProductDetailPage on its own: the page mounted with any route           *)
(* parameter; Home is not on the screen and its state takes no part.       *)
(***************************************************************************)
InitDetail ==
    /\ HomeInit
    /\ detail \in { DetailMounted(id) : id \in DetailIds }

fetchProduct_NoIdCheck ==
    /\ detail.mounted
    /\ detail.effect = "pending"
    /\ detail' = [detail EXCEPT !.effect = "ran", !.loading = TRUE,
                                !.call = "pending",
                                !.requests = detail.requests + 1]
    /\ UNCHANGED homeVars

\* useEffect(() => { fetchProduct() }, [params.id]) after the mount, up to
\* the await
fetchProduct ==
    /\ detail.mounted
    /\ detail.effect = "pending"
    /\ detail' =
          IF ~validId(detail.id)
          THEN [detail EXCEPT !.effect = "ran",
                              !.error = Str("Invalid product ID"),
                              !.loading = FALSE]
          ELSE [detail EXCEPT !.effect = "ran", !.loading = TRUE,
                              !.call = "pending",
                              !.requests = detail.requests + 1]
    /\ UNCHANGED homeVars

\* fetchProduct after the await: the call succeeded with product p; the
\* setters of a page that has left the screen do nothing
ProductLoads(p) ==
    /\ detail.call = "pending"
    /\ detail' =
          IF detail.mounted
          THEN [detail EXCEPT !.call = "settled", !.product = <<p>>,
                              !.error = Null, !.loading = FALSE]
          ELSE [detail EXCEPT !.call = "settled"]
    /\ UNCHANGED homeVars

\* fetchProduct after the await: the call failed with f
ProductFails(f) ==
    /\ detail.call = "pending"
    /\ detail' =
          IF detail.mounted
          THEN [detail EXCEPT !.call = "settled",
                              !.error = productErrorMessage(responseInterceptor(f)),
                              !.loading = FALSE]
          ELSE [detail EXCEPT !.call = "settled"]
    /\ UNCHANGED homeVars

\* the user leaves the page: the Back link, or the browser's back button
LeaveDetail ==
    /\ detail.mounted
    /\ detail.effect = "ran"
    /\ detail' = [detail EXCEPT !.mounted = FALSE]
    /\ UNCHANGED homeVars

NextDetail ==
    \/ fetchProduct
    \/ \E p \in Pool : ProductLoads(p)
    \/ \E f \in DetailFailures : ProductFails(f)
    \/ LeaveDetail

SpecDetail == InitDetail /\ [][NextDetail]_vars

(***************************************************************************)
(* useProducts on its own: the hook rendered with any initialParams, its   *)
(* initial-load effect, and the completion of that call.                   *)
(***************************************************************************)
\* the ProductQueryParams the hook is given
QueryChoices ==
    { [NoParams EXCEPT !["page"] = pg, !["page_size"] = ps, !["search"] = st,
                       !["category"] = flt.category,
                       !["min_price"] = flt.min_price,
                       !["max_price"] = flt.max_price,
                       !["min_stock"] = flt.min_stock,
                       !["sort_by"] = sb, !["sort_order"] = so,
                       !["tags"] = flt.tags] :
        pg \in {Absent, Val(0), Val(3)},
        ps \in {Absent, Val(0), Val(20)},
        st \in {Absent, Val(<<"u", "s", "b">>)},
        sb \in {Absent, Val("name")},
        so \in {Absent, Val("asc")},
        flt \in { [category |-> Absent, min_price |-> Absent,
                   max_price |-> Absent, min_stock |-> Absent, tags |-> Absent],
                  [category |-> Val("computers"), min_price |-> Val(1),
                   max_price |-> Val(900), min_stock |-> Val(0),
                   tags |-> Val(<<"new">>)] } }

\* the first render of useProducts(initialParams), before its effect
InitRequest ==
    /\ params = InitialParams
    /\ currentParams \in QueryChoices
    /\ products = <<>>
    /\ loading = TRUE
    /\ error = Null
    /\ total = 0
    /\ page = OrNum(currentParams["page"], 1)
    /\ totalPages = 0
    /\ search = <<>>
    /\ category = "all"
    /\ sortBy = "created_at"
    /\ sortOrder = "desc"
    /\ filteredAndSortedProducts =
           filterAndSort(products, search, category, sortBy, sortOrder)
    /\ timers = <<>>
    /\ inflight = <<>>
    /\ promises = <<>>
    /\ freshest = [token |-> 0, resp |-> NoResponse]
    /\ quiet = DebounceDelay
    /\ burstCalls = 0
    /\ userActed = FALSE
    /\ committed = [category |-> Undefined, sort_by |-> "created_at",
                    sort_order |-> "desc"]
    /\ failedSinceInput = FALSE
    /\ appliedPageSize = OrNum(currentParams["page_size"], 50)
    /\ detail = NoDetailPage

\* useEffect(() => { fetchProducts(initialParams) }, [])
initialLoad ==
    /\ issued = 0
    /\ fetchProducts(currentParams, currentParams, "mount")
    /\ UNCHANGED <<params, products, total, page, totalPages, tableVars, timers,
                   freshest, historyVars, detail>>
    /\ Render

NextRequest ==
    \/ initialLoad
    \/ \E d \in DataSets : FetchSucceeds(1, d)
    \/ \E f \in Failures : FetchFails(1, f)

SpecRequest == InitRequest /\ [][NextRequest]_vars

(***************************************************************************)
(* Vocabulary of the properties.                                           *)
(***************************************************************************)
\* this step dispatched a call
Dispatches == Len(promises') = Len(promises) + 1

\* the call this step dispatched
Dispatched == inflight'[Len(inflight')]

\* this step handled the completion of the call with token t
Settles(t) == t <= issued /\ promises[t] = "pending" /\ promises'[t] # "pending"

\* this step is the catch branch of fetchProducts
FailureStep == \E k \in 1..Len(inflight), f \in Failures : FetchFails(k, f)

\* this step is the try branch of fetchProducts after the await
SuccessStep == \E k \in 1..Len(inflight), d \in DataSets : FetchSucceeds(k, d)

\* a category field of the Query or of a request names no sentinel
NoSentinel(f) == f \in {Undefined} \cup { Val(c) : c \in RealCategories }

\* this step is a category, sort or page change of the user
ImmediateChange ==
    \/ \E value \in {"all"} \cup categorySet(products) : handleCategoryChange(value)
    \/ \E field \in SortInputs : handleSortChange(field)
    \/ \E newPage \in {page - 1, page + 1} : handlePageChange(newPage)

(***************************************************************************)
(* C1: when a call completes, its outcome is applied to products, total,   *)
(* page, totalPages and error only if no newer call has been dispatched    *)
(* since: the completion of a superseded call leaves them unchanged.       *)
(***************************************************************************)
C1_StaleResponsesDropped ==
    [][\A t \in 1..issued :
          (Settles(t) /\ t < issued) =>
              UNCHANGED <<products, total, page, totalPages, error>>]_vars

(***************************************************************************)
(* C2: for calls t1 < t2 where t2 succeeded first and its PageResult is    *)
(* held, the late completion of t1 does not overwrite it: the held         *)
(* PageResult is still the one returned for t2.                            *)
(***************************************************************************)
C2_LateResponseDiscarded ==
    [][\A t1 \in 1..issued :
          (Settles(t1) /\ t1 < freshest.token /\ held = freshest.resp) =>
              held' = freshest.resp]_vars

(***************************************************************************)
(* C3: a burst of search edits, each less than 300 ms after the previous,  *)
(* dispatches exactly one call: none before 300 ms have passed since the   *)
(* last edit, one when they have, carrying the last text as search (no     *)
(* search when the text is empty), and none after it.                      *)
(***************************************************************************)
C3_DebounceOneCall ==
    /\ [](/\ burstCalls <= 1
          /\ quiet < DebounceDelay => burstCalls = 0
          /\ (quiet = DebounceDelay /\ burstCalls = 0) =>
                 /\ Len(timers) = 1
                 /\ timers[1].elapsed = DebounceDelay
                 /\ timers[1].search = search)
    /\ [][(Dispatches /\ Dispatched.origin = "debounce") =>
              /\ quiet = DebounceDelay
              /\ burstCalls = 0
              /\ Dispatched.req.search =
                     (IF search = <<>> THEN Undefined ELSE Val(search))]_vars

C3_Witness ==
    /\ userActed
    /\ search # <<>>
    /\ burstCalls = 1
    /\ \E k \in 1..Len(inflight) :
          /\ inflight[k].origin = "debounce"
          /\ inflight[k].req.search = Val(search)

(***************************************************************************)
(* C4: apart from the initial load, a call is dispatched only as a         *)
(* consequence of a user-driven change: with no user input after the       *)
(* mount, exactly one call is ever dispatched.                             *)
(***************************************************************************)
C4_OneCallWithoutInput == ~userActed => issued = 1

(***************************************************************************)
(* C5: a category, sort or page change dispatches its call in the same     *)
(* step as the user event, whatever timers are pending and whatever calls  *)
(* are in flight; the pending timers are left alone.                       *)
(***************************************************************************)
C5_ImmediateDispatch ==
    [][ImmediateChange =>
          /\ Dispatches
          /\ Dispatched.token = issued + 1
          /\ Dispatched.origin \in {"category", "sort", "page"}
          /\ promises'[issued + 1] = "pending"
          /\ loading'
          /\ timers' = timers]_vars

C5_Witness ==
    /\ Len(inflight) >= 2
    /\ inflight[Len(inflight)].token = issued
    /\ inflight[Len(inflight)].origin \in {"category", "sort", "page"}
    /\ timers # <<>>
    /\ Head(timers).elapsed < DebounceDelay

(***************************************************************************)
(* C6: when a call fails after a PageResult has been applied, the rows     *)
(* held before the failure are retained.                                   *)
(***************************************************************************)
C6_RowsRetainedOnFailure ==
    [][(FailureStep /\ freshest.token > 0) => products' = products]_vars

(***************************************************************************)
(* C7: the error is non-null only in states where no PageResult has ever   *)
(* been applied.                                                           *)
(***************************************************************************)
C7_ErrorOnlyBeforeFirstPage == error # Null => freshest.token = 0

(***************************************************************************)
(* C8: every failure of the page query is caught inside fetchProducts: no  *)
(* promise it returned is rejected, the failure leaves a non-null error    *)
(* message, and the rows are never a part of a response: they are empty    *)
(* after a failure, and otherwise a whole page of the service.             *)
(***************************************************************************)
C8_FailuresCaught ==
    /\ [](/\ \A t \in 1..issued : promises[t] \in {"pending", "fulfilled"}
          /\ \/ products = <<>>
             \/ \E d \in DataSets : products = d.products)
    /\ [][FailureStep =>
              /\ error' # Null
              /\ Len(error') = 1
              /\ products' = <<>>
              /\ \E t \in 1..issued : Settles(t) /\ promises'[t] = "fulfilled"]_vars

C8_Witness ==
    /\ error # Null
    /\ products = <<>>
    /\ freshest.token > 0
    /\ freshest.resp.products # <<>>
    /\ ~loading

(***************************************************************************)
(* C9: every dispatched request, and the Query Model after it, carries the *)
(* most recently committed category and sort.                              *)
(***************************************************************************)
C9_CommittedChangesKept ==
    [][Dispatches =>
          /\ Dispatched.req.category = committed'.category
          /\ Dispatched.req.sort_by = committed'.sort_by
          /\ Dispatched.req.sort_order = committed'.sort_order
          /\ Read(params'["category"]) = committed'.category
          /\ params'["sort_by"] = Val(committed'.sort_by)
          /\ params'["sort_order"] = Val(committed'.sort_order)]_vars

(***************************************************************************)
(* C10: every change of a filter field, the search text through the        *)
(* debounce or the category through handleCategoryChange, produces a Query *)
(* with page = 1 and dispatches a request with page = 1.                   *)
(***************************************************************************)
C10_FilterChangeResetsPage ==
    [][(Dispatches /\ Dispatched.origin \in {"debounce", "category"}) =>
          /\ params'["page"] = Val(1)
          /\ currentParams'["page"] = Val(1)
          /\ Dispatched.req.page = 1]_vars

C10_Witness ==
    /\ issued = 3
    /\ Len(inflight) = 1
    /\ inflight[1].origin = "category"
    /\ inflight[1].req.page = 1
    /\ params["page"] = Val(1)
    /\ page = 2

(***************************************************************************)
(* C11: the sentinel "all" never reaches the Query or a request: the       *)
(* category of the Query Model, of the hook's params and of every request  *)
(* is undefined or a category of the service, and selecting "all"          *)
(* dispatches a request without a category.                                *)
(***************************************************************************)
C11_SentinelNeverSent ==
    /\ [](/\ NoSentinel(Read(params["category"]))
          /\ NoSentinel(Read(currentParams["category"]))
          /\ \A k \in 1..Len(inflight) : NoSentinel(inflight[k].req.category))
    /\ [][handleCategoryChange("all") =>
              /\ Dispatches
              /\ Dispatched.req.category = Undefined
              /\ Read(params'["category"]) = Undefined
              /\ category' = "all"]_vars

C11_Witness ==
    /\ category = "all"
    /\ committed.category = Undefined
    /\ \E k \in 1..Len(inflight) :
          /\ inflight[k].origin = "category"
          /\ inflight[k].token = issued
          /\ inflight[k].req.category = Undefined

C13_ViewStateMachine ==
    /\ (loading = TRUE /\ products = <<>> /\ error = Null)
    /\ [][/\ Dispatches => (loading' /\ error' = Null)
          /\ SuccessStep => (~loading' /\ error' = Null)
          /\ FailureStep => (~loading' /\ error' # Null)
          /\ (loading' # loading) =>
                 (Dispatches \/ SuccessStep \/ FailureStep)]_vars

(***************************************************************************)
(* C14: on a Loading transition other than the first one, the rows on the  *)
(* screen stay on the screen: the step that sets loading replaces them     *)
(* neither by the loading indicator nor by the empty notice.               *)
(***************************************************************************)
C14_NoFlicker ==
    [][(~loading /\ loading' /\ tableView = "rows") =>
          (tableView' = "rows" /\ renderedRows' # <<>>)]_vars

(***************************************************************************)
(* C15: in the step of a search edit, before any call for it, the overlay  *)
(* becomes the filter and sort of the held rows under the new text; the    *)
(* edit changes neither the held rows, nor loading, nor the Query, and     *)
(* dispatches nothing.                                                     *)
(***************************************************************************)
C15_InstantOverlay ==
    [][\A text \in Texts :
          SearchEdit(text) =>
              /\ filteredAndSortedProducts' =
                     filterAndSort(products, text, category, sortBy, sortOrder)
              /\ UNCHANGED <<products, total, page, totalPages, loading, error,
                             params, currentParams, inflight, promises>>]_vars

C15_Witness ==
    /\ search # <<>>
    /\ quiet = 0
    /\ params["search"] = Absent
    /\ \A k \in 1..Len(inflight) : inflight[k].req.search = Undefined
    /\ filteredAndSortedProducts # <<>>
    /\ Len(filteredAndSortedProducts) < Len(products)
    /\ tableView = "rows"

C17_NoCancellationQuiescence ==
    /\ []((inflight = <<>> /\ timers = <<>>) => loading = FALSE)
    /\ [](\A t \in 1..issued :
             promises[t] = "pending" <=>
                 \E k \in 1..Len(inflight) : inflight[k].token = t)
    /\ [][/\ Dispatches => inflight' = Append(inflight, Dispatched)
          /\ \A k \in 1..Len(inflight) :
                \/ \E j \in 1..Len(inflight') : inflight'[j] = inflight[k]
                \/ Settles(inflight[k].token)]_vars
    /\ \A t \in 1..MaxLiveCalls :
          (t <= issued /\ promises[t] = "pending")
              ~> (t <= issued /\ promises[t] = "fulfilled")

C17_Witness ==
    /\ issued = MaxLiveCalls
    /\ inflight = <<>>
    /\ timers = <<>>
    /\ loading = FALSE
    /\ \A t \in 1..issued : promises[t] = "fulfilled"

(***************************************************************************)
(* C18: a row of the held page is in the overlay exactly when the search   *)
(* text is empty or its lower-cased form occurs in the lower-cased name,   *)
(* description or sku, and the category filter is "all" or equals the      *)
(* row's category; the overlay has no other rows.  With the text "usb" a   *)
(* row described as "USB-C" is kept and the row named "Lap" is dropped.    *)
(***************************************************************************)
C18_OverlayFilter ==
    LET out == filteredAndSortedProducts
        shown(p) == \E j \in 1..Len(out) : out[j] = p
        occursIn(sub, str) ==
            \E at \in 0..Len(str) :
                /\ at + Len(sub) <= Len(str)
                /\ \A n \in 1..Len(sub) : str[at + n] = sub[n]
        textOk(p) ==
            \/ search = <<>>
            \/ occursIn(toLowerCase(search), toLowerCase(p.name))
            \/ occursIn(toLowerCase(search), toLowerCase(p.description))
            \/ occursIn(toLowerCase(search), toLowerCase(p.sku))
        categoryOk(p) == category = "all" \/ p.category = category
    IN  /\ \A i \in 1..Len(products) :
              shown(products[i]) <=> (textOk(products[i]) /\ categoryOk(products[i]))
        /\ \A j \in 1..Len(out) : \E i \in 1..Len(products) : products[i] = out[j]
        /\ \A j, k \in 1..Len(out) : out[j] = out[k] => j = k
        /\ search = <<"u", "s", "b">> =>
              /\ ~shown(Laptop)
              /\ (category = "all" /\ \E i \in 1..Len(products) : products[i] = Cable)
                     => shown(Cable)

C18_Witness ==
    /\ search = <<"u", "s", "b">>
    /\ category = "accessories"
    /\ products = <<Laptop, Hub, Cable>>
    /\ filteredAndSortedProducts = <<Cable>>

(***************************************************************************)
(* C19: the overlay sort is stable for asc and for desc: two rows with     *)
(* equal sort keys are in the overlay in the order they have in the held   *)
(* page.                                                                   *)
(***************************************************************************)
C19_OverlaySortStable ==
    LET out == filteredAndSortedProducts
        heldAt(p) == CHOOSE i \in 1..Len(products) : products[i] = p
    IN  \A j, k \in 1..Len(out) :
            (j < k /\ sortValue(out[j], sortBy) = sortValue(out[k], sortBy)) =>
                heldAt(out[j]) < heldAt(out[k])

C19_Witness ==
    /\ sortBy = "price"
    /\ sortOrder = "desc"
    /\ products = <<Cable, Mouse, Laptop>>
    /\ filteredAndSortedProducts = <<Laptop, Cable, Mouse>>

(***************************************************************************)
(* C20: the overlay is ordered by the key of the selected field, never     *)
(* decreasing for asc and never increasing for desc.  The key is the       *)
(* number for price, rating and stock, 0 when it is missing; the           *)
(* lower-cased name for name; the parsed time for created_at.              *)
(***************************************************************************)
C20_OverlaySortOrder ==
    LET out == filteredAndSortedProducts
        key(p) ==
            CASE sortBy = "price" -> p.price
              [] sortBy = "stock" -> p.stock
              [] sortBy = "rating" -> (IF p.rating = Absent THEN 0 ELSE p.rating[2])
              [] sortBy = "name" -> toLowerCase(p.name)
              [] sortBy = "created_at" -> getTime(p.created_at)
        before(a, b) ==
            IF sortBy = "name" THEN stringLess(key(a), key(b)) ELSE key(a) < key(b)
    IN  \A j \in 1..(Len(out) - 1) :
            IF sortOrder = "asc"
            THEN ~before(out[j + 1], out[j])
            ELSE ~before(out[j], out[j + 1])

C20_Witness ==
    /\ sortBy = "rating"
    /\ sortOrder = "asc"
    /\ products = <<Laptop, Cable, Mouse>>
    /\ filteredAndSortedProducts = <<Cable, Laptop, Mouse>>

(***************************************************************************)
(* C21: computing the overlay changes neither the held page (its rows,     *)
(* their order, their fields, a missing rating included) nor the Query,    *)
(* total, page or totalPages; the overlay holds only rows of the held      *)
(* page, each at most once.                                                *)
(***************************************************************************)
C21_OverlayPure ==
    /\ [](LET out == filteredAndSortedProducts
          IN  /\ \A j \in 1..Len(out) : \E i \in 1..Len(products) : products[i] = out[j]
              /\ \A j, k \in 1..Len(out) : out[j]._id = out[k]._id => j = k)
    /\ [][(search' # search \/ category' # category
                \/ sortBy' # sortBy \/ sortOrder' # sortOrder) =>
              UNCHANGED <<products, params, currentParams, total, page,
                          totalPages>>]_vars

C21_Witness ==
    /\ sortBy = "rating"
    /\ sortOrder = "desc"
    /\ search = <<>>
    /\ category = "all"
    /\ products = <<Cable, Hub, Laptop>>
    /\ products[1].rating = Absent
    /\ filteredAndSortedProducts = <<Laptop, Cable, Hub>>

(***************************************************************************)
(* C22: the categories offered are the distinct non-empty categories of    *)
(* the held page, not of the overlay, in ascending order, and they change  *)
(* only when the held page changes.                                        *)
(***************************************************************************)
C22_CategoryList ==
    /\ [](/\ { categories[i] : i \in 1..Len(categories) } =
               { products[i].category : i \in 1..Len(products) } \ {""}
          /\ \A i, j \in 1..Len(categories) :
                i < j => stringLess(categoryChars(categories[i]),
                                    categoryChars(categories[j])))
    /\ [][products' = products => categories' = categories]_vars

C22_Witness ==
    /\ products = <<Laptop, Loose, Cable>>
    /\ categories = <<"accessories", "computers">>
    /\ search = <<"L", "A", "P">>
    /\ filteredAndSortedProducts = <<Laptop>>

(***************************************************************************)
(* C23: when a successful response is applied, the rows, total, page and   *)
(* totalPages held are exactly its products, total, page and total_pages;  *)
(* and the count handed to the virtualizer is always the length of the     *)
(* overlay of the held rows.                                               *)
(***************************************************************************)
C23_ResponseApplied ==
    /\ [](virtualizerOptions.count =
              Len(filterAndSort(products, search, category, sortBy, sortOrder)))
    /\ [][\A k \in 1..Len(inflight), d \in DataSets :
              FetchSucceeds(k, d) =>
                  /\ products' = d.products
                  /\ total' = d.total
                  /\ page' = inflight[k].req.page
                  /\ totalPages' = Response(inflight[k].req, d).total_pages]_vars

C23_Witness ==
    /\ inflight = <<>>
    /\ freshest.token = 2
    /\ held = freshest.resp
    /\ page = 2
    /\ total = 120
    /\ search = <<"u", "s", "b">>
    /\ virtualizerOptions.count = 2

(***************************************************************************)
(* C24: in every state, totalPages is the total divided by the page size   *)
(* of the request whose response was applied last, rounded up, when the    *)
(* total is positive, and 0 when the total is 0: 3 for 120 items in pages  *)
(* of 50.                                                                  *)
(***************************************************************************)
C24_TotalPages ==
    /\ total > 0 =>
          /\ (totalPages - 1) * appliedPageSize < total
          /\ total <= totalPages * appliedPageSize
    /\ total = 0 => totalPages = 0
    /\ (total = 120 /\ appliedPageSize = 50) => totalPages = 3

C24_Witness ==
    /\ total = 120
    /\ totalPages = 3
    /\ appliedPageSize = 50
    /\ products = <<>>
    /\ error # Null
    /\ inflight = <<>>

(***************************************************************************)
(* C28: an empty result is not an error: in the step that applies a        *)
(* successful response with zero items, the error is null, loading is      *)
(* false, the held rows are empty and the table shows the empty notice.    *)
(***************************************************************************)
C28_EmptyNotError ==
    [][\A k \in 1..Len(inflight), d \in DataSets :
          (FetchSucceeds(k, d) /\ Response(inflight[k].req, d).products = <<>>) =>
              /\ error' = Null
              /\ loading' = FALSE
              /\ products' = <<>>
              /\ tableView' = "empty"]_vars

(***************************************************************************)
(* C29: the product detail page.  For a route parameter that is missing or *)
(* not a string no call is ever made, and once the effect has run the page *)
(* shows the error card with error set, loading false and no product.  For *)
(* a string id exactly one call is made, and once it has completed loading *)
(* is false and the page is in exactly one of the product state (product   *)
(* set, error null) and the error state (error set).                       *)
(***************************************************************************)
C29_DetailView ==
    /\ ~validId(detail.id) =>
          /\ detail.requests = 0
          /\ detail.call = "none"
          /\ (detail.mounted /\ detail.effect = "ran") =>
                /\ detail.error # Null
                /\ detail.loading = FALSE
                /\ detail.product = Null
                /\ detailView = "error"
    /\ (validId(detail.id) /\ detail.effect = "ran") => detail.requests = 1
    /\ (detail.mounted /\ validId(detail.id) /\ detail.call = "settled") =>
          /\ detail.loading = FALSE
          /\ \/ detail.product # Null /\ detail.error = Null /\ detailView = "product"
             \/ detail.error # Null /\ detail.product = Null /\ detailView = "error"

C29_Witness ==
    /\ detail.mounted
    /\ detail.id = IdArray
    /\ detail.effect = "ran"
    /\ detail.error = Str("Invalid product ID")
    /\ detailView = "error"

(***************************************************************************)
(* C30: loading is true whenever a page call is in flight; the completion  *)
(* of an older call does not set it to false while a newer call is still   *)
(* in flight.                                                              *)
(***************************************************************************)
C30_LoadingWhileInFlight == inflight # <<>> => loading = TRUE

(***************************************************************************)
(* C26: the height of the scroll container's inner element is 80 pixels    *)
(* times the length of the overlay output, whatever the length of the held *)
(* page and the total are: it is 0 for an empty overlay output, and a step *)
(* that changes the length of the overlay output changes the height.       *)
(***************************************************************************)
C26_TotalHeight ==
    /\ [](/\ getTotalSize =
                80 * Len(filterAndSort(products, search, category, sortBy, sortOrder))
          /\ filterAndSort(products, search, category, sortBy, sortOrder) = <<>> =>
                getTotalSize = 0)
    /\ [][Len(filterAndSort(products', search', category', sortBy', sortOrder')) #
              Len(filterAndSort(products, search, category, sortBy, sortOrder)) =>
                 getTotalSize' # getTotalSize]_vars

C26_Witness ==
    /\ Len(products) = 3
    /\ total = 120
    /\ Len(filteredAndSortedProducts) = 2
    /\ tableView = "rows"
    /\ getTotalSize = 160

(***************************************************************************)
(* C31: a non-null error implies an empty row list: no interleaving of     *)
(* overlapping calls leaves the hook with both an error and rows.          *)
(***************************************************************************)
C31_ErrorImpliesNoRows == error # Null => products = <<>>

(***************************************************************************)
(* C32: in every state with no pending debounce timer and no call in       *)
(* flight, the Query Model of Home agrees with the local state of          *)
(* DataTable: params.search is the search text (no value iff the text is   *)
(* empty), params.category is the selected category (no value iff "all"),  *)
(* and params.sort_by / params.sort_order are sortBy / sortOrder.          *)
(***************************************************************************)
C32_QuiescentAgreement ==
    (timers = <<>> /\ inflight = <<>>) =>
        /\ IF search = <<>> THEN ~IsSet(params["search"])
                            ELSE params["search"] = Val(search)
        /\ IF category = "all" THEN ~IsSet(params["category"])
                               ELSE params["category"] = Val(category)
        /\ params["sort_by"] = Val(sortBy)
        /\ params["sort_order"] = Val(sortOrder)

(***************************************************************************)
(* C33: the step that handles a failed call empties the rows, sets the     *)
(* error and ends loading, and changes nothing else: total, page and       *)
(* totalPages keep their values, and neither the Query Model of Home nor   *)
(* the params of the last call nor the local state of DataTable is rolled  *)
(* back.                                                                   *)
(***************************************************************************)
C33_FailureFrame ==
    [][FailureStep =>
          /\ products' = <<>>
          /\ error' # Null
          /\ loading' = FALSE
          /\ UNCHANGED <<total, page, totalPages>>
          /\ UNCHANGED <<params, currentParams, tableVars>>]_vars

C33_Witness ==
    /\ error # Null
    /\ products = <<>>
    /\ loading = FALSE
    /\ page = 1
    /\ total = 120
    /\ totalPages = 3
    /\ freshest.token = 1
    /\ sortBy = "price"
    /\ params["sort_by"] = Val("price")
    /\ currentParams["sort_by"] = Val("price")
    /\ inflight = <<>>

(***************************************************************************)
(* C34: at most one debounce timer is pending.  A search edit leaves       *)
(* exactly its own timer pending, freshly armed for the new text, whatever *)
(* timer was pending before; a call of the debounce is dispatched by the   *)
(* one pending timer, which carries the current search text, so a          *)
(* cancelled timer dispatches nothing; a category, sort or page change     *)
(* leaves the pending timer as it is.                                      *)
(***************************************************************************)
C34_OneTimerPending ==
    /\ [](Len(timers) <= 1)
    /\ [][\A text \in Texts :
             SearchEdit(text) => timers' = <<newTimer(params, currentParams, text)>>]_vars
    /\ [][(Dispatches /\ Dispatched.origin = "debounce") =>
              /\ Len(timers) = 1
              /\ timers[1].search = search
              /\ timers[1].elapsed = DebounceDelay
              /\ timers' = <<>>]_vars
    /\ [][ImmediateChange => timers' = timers]_vars

C34_Witness ==
    /\ Len(timers) = 1
    /\ timers[1].search = <<"u", "s", "b">>
    /\ timers[1].elapsed = 1
    /\ quiet = 1
    /\ Len(inflight) = 2
    /\ inflight[2].origin = "sort"

C37_SortFrame ==
    [][\A field \in SortInputs :
          handleSortChange(field) =>
              /\ Dispatches
              /\ Dispatched.req.page = OrNum(params["page"], 1)
              /\ Dispatched.req.page_size = OrNum(params["page_size"], 50)
              /\ Dispatched.req.search = Read(params["search"])
              /\ Dispatched.req.category = Read(params["category"])
              /\ \A key \in Keys \ {"sort_by", "sort_order"} : params'[key] = params[key]
              /\ search' = search
              /\ category' = category]_vars

C37_Witness ==
    /\ params["page"] = Val(2)
    /\ issued = 3
    /\ inflight # <<>>
    /\ inflight[Len(inflight)].origin = "sort"
    /\ inflight[Len(inflight)].req.page = 2
    /\ inflight[Len(inflight)].req.sort_by = "price"
    /\ sortBy = "price"

(***************************************************************************)
(* C38: pagination stays reachable: in every state where loading is false  *)
(* and totalPages > 1, Previous is enabled when page > 1 and Next when     *)
(* page < totalPages, also when the overlay over the held page is empty.   *)
(***************************************************************************)
C38_PaginationReachable ==
    (loading = FALSE /\ totalPages > 1) =>
        /\ page > 1 => (page - 1) \in enabledPageInputs
        /\ page < totalPages => (page + 1) \in enabledPageInputs

(***************************************************************************)
(* C39: every request of fetchProducts has page >= 1, page_size >= 1, a    *)
(* sort field and a sort order: a missing or zero page is sent as 1, a     *)
(* missing or zero page_size as 50, a missing sort_by as created_at and a  *)
(* missing sort_order as desc, and a given value as it is; search,         *)
(* category, min_price, max_price, min_stock and tags are sent as given,   *)
(* undefined when not given.                                               *)
(***************************************************************************)
C39_RequestDefaults ==
    \A k \in 1..Len(inflight) :
        LET req == inflight[k].req
            given == currentParams
        IN  /\ req.page >= 1
            /\ req.page_size >= 1
            /\ req.sort_by \in SortFields
            /\ req.sort_order \in {"asc", "desc"}
            /\ req.page = IF given["page"] \in {Absent, Val(0)} THEN 1
                          ELSE given["page"][2]
            /\ req.page_size = IF given["page_size"] \in {Absent, Val(0)} THEN 50
                               ELSE given["page_size"][2]
            /\ req.sort_by = IF given["sort_by"] = Absent THEN "created_at"
                             ELSE given["sort_by"][2]
            /\ req.sort_order = IF given["sort_order"] = Absent THEN "desc"
                                ELSE given["sort_order"][2]
            /\ \A key \in {"search", "category", "min_price", "max_price",
                           "min_stock", "tags"} :
                  req[key] = IF given[key] = Absent THEN Undefined ELSE given[key]

C39_Witness ==
    /\ Len(inflight) = 1
    /\ currentParams["page"] = Val(0)
    /\ currentParams["page_size"] = Absent
    /\ currentParams["sort_by"] = Absent
    /\ currentParams["sort_order"] = Val("asc")
    /\ currentParams["min_stock"] = Val(0)
    /\ inflight[1].req.page = 1
    /\ inflight[1].req.page_size = 50
    /\ inflight[1].req.sort_by = "created_at"
    /\ inflight[1].req.sort_order = "asc"
    /\ inflight[1].req.min_stock = Val(0)
    /\ inflight[1].req.search = Undefined

====
